---------------------------- MODULE Spec2Model ----------------------------
(***************************************************************************)
(* Model of src/email_sender.py: the EmailSender dispatcher (send_email),  *)
(* the bulk meeting-invite workflow (send_bulk_meet_invites) and the menu  *)
(* driven workflows of main().  The SMTP library is the environment: each  *)
(* of its operations either succeeds or raises.                            *)
(***************************************************************************)
EXTENDS Integers, Sequences, FiniteSets, TLC

(* ------------------------------ bounds -------------------------------- *)

\* largest number of entries of config['recipients']
MaxRecipients == 3

(* ------------------------- values of the data -------------------------- *)

\* Python's None (a missing key read with dict.get, an absent argument)
None == "None"

\* the default certificate URL of the code
DefaultCertUrl == "#"

\* e-mail addresses a directory entry can hold
Emails == {"a@x.com", "b@x.com"}

\* a certificate URL configured for an entry
CertUrls == {"http://c/1.pdf"}

\* a bare e-mail string entry: name -> email (the string may be empty)
StrEntries ==
  [kind : {"str"}, email : Emails \cup {""}, certificate_url : {None}]

\* an object entry: name -> {email?, certificate_url?}
DictEntries ==
  [kind : {"dict"}, email : {None, "a@x.com"}, certificate_url : CertUrls \cup {None}]

RecipientEntry == StrEntries \cup DictEntries

\* the entries of the directories of the runs with a logo
LogoEntries ==
  {e \in RecipientEntry :
     \/ e.kind = "str" /\ e.email \in {"a@x.com", ""}
     \/ e.kind = "dict" /\ e.email = "a@x.com" /\ e.certificate_url # None}

LogoDirectories == UNION {[1..n -> LogoEntries] : n \in 0..MaxRecipients}

\* config['recipients'] in insertion order; the name of entry i is its
\* position i (the keys of a mapping are distinct)
Directories == UNION {[1..n -> RecipientEntry] : n \in 0..MaxRecipients}

\* what _load_config can return: {} (missing or malformed file), a mapping
\* without 'recipients', or a full configuration
ConfigKinds == {"empty", "norecipients", "full"}

\* lines the operator can type at a yes/no prompt
Answers == {"y", " Y ", "n", "yes", ""}

\* addresses the operator can type (the test address, the manual recipient)
TypedEmails == {"", "t@x.com", "a@x.com"}

\* outcome of one call into the SMTP library
Outcomes == {"ok", "raise"}

\* what config.get("logo_url", "") can give: no logo, or a URL
LogoUrls == {"", "http://logo/l.png"}

\* outcome of urllib.request.urlopen(logo_url) and response.read(): image
\* bytes, no bytes at all, or an exception
FetchOutcomes == {"bytes", "empty", "raise"}

\* the bytes read for a fetch outcome
BytesOf(f) == IF f = "bytes" THEN "PNG" ELSE ""

\* make_msgid(domain="icpepse"): a fresh "<n@icpepse>"
MsgId(n) == [id |-> n, brackets |-> TRUE]

\* None in the place of a message id or of a content id
NoMsgId == [id |-> 0, brackets |-> FALSE]

\* logo_msg_id.strip("<>")
StripBrackets(m) == [m EXCEPT !.brackets = FALSE]

\* instants datetime.now() can give: two in one year, one in the next
Instants ==
  {[year |-> 2025, stamp |-> 1], [year |-> 2025, stamp |-> 2],
   [year |-> 2026, stamp |-> 3]}

\* random.randint(1000, 9999)
RandLow == 1000
RandHigh == 9999
Randoms == {RandLow, RandHigh}

\* lines the operator can type at the subject prompt
SubjectLines == {"", "  "}

\* lines the operator can type at the prompts of the invitation
TopicLines == {"ML Overview", " ML Overview "}
DateLines == {"Oct 30, 2025"}
TimeLines == {"8-9PM"}
LinkLines == {"https://meet.x/abc"}

\* str.strip() on the lines above
Strip(s) ==
  CASE s = "  " -> ""
    [] s = " ML Overview " -> "ML Overview"
    [] OTHER -> s

\* meet_info=None of send_email
NoMeetInfo == [given |-> FALSE, topic |-> "", date |-> "", time |-> "", link |-> ""]

\* str.strip().lower() on the lines of Answers
StripLower(s) ==
  CASE s = " Y " -> "y"
    [] OTHER -> s

\* Python truthiness of an e-mail value: None and "" are falsy
Truthy(v) == v # None /\ v # ""

(* ------------------------------- state --------------------------------- *)

VARIABLES
  pc,          \* position of the program
  config,      \* kind of self.config
  recipients,  \* self.config['recipients']
  choice,      \* the menu option typed in main
  mode,        \* "certificate" or "meet": the running bulk workflow
  idx,         \* position of the for loop in the directory
  server,      \* id of the shared session of the bulk phase, 0 if none
  results,     \* the result mapping: email -> "True" / "False"
  call,        \* arguments of the running send_email call
  retval,      \* what the last send_email call gave its caller
  sessions,    \* every SMTP session opened so far: its kind and state
  dispatched,  \* every send_email call so far
  transmitted, \* every message the relay accepted
  test_success,\* result of the test send, None if there was none
  proceed,     \* normalised answer to "Proceed with bulk sending?"
  report,      \* <<successes, total>> printed at the end, <<>> if none
  ending,      \* how the run ended
  logo_url,    \* self.config.get("logo_url", "")
  logo_data,   \* self._logo_data
  logo_msg_id, \* self._logo_msg_id
  fetches,     \* number of urlopen(logo_url) calls so far
  subject,     \* the subject of the running workflow
  meet_info,   \* the meet_info of send_bulk_meet_invites
  send_test,   \* "Send a test email first?" was answered with 'y'
  test_email,  \* the test address typed by the operator, None if none
  message,     \* the message send_email is building and sending
  rendered     \* the documents _create_html_template gave when called
               \* alone, each with the instant of the call

\* the logo cache of the EmailSender
logo == <<logo_data, logo_msg_id, fetches>>

\* what the operator typed for the running workflow
typed == <<subject, meet_info, send_test, test_email>>

vars == <<pc, config, recipients, choice, mode, idx, server, results, call,
          retval, sessions, dispatched, transmitted, test_success, proceed,
          report, ending, logo_url, logo, typed, message, rendered>>

NoCall == [to |-> None, subject |-> None, name |-> 0, mode |-> None,
           certificate_url |-> None, meet_info |-> NoMeetInfo,
           server |-> 0, entry |-> 0, ret |-> None]

\* the parts of the HTML document that are not fixed markup
NoHtml == [title |-> None, header_cid |-> NoMsgId, kind |-> None, dear |-> 0,
           topic |-> None, date |-> None, time |-> None, link |-> None,
           href |-> None, year |-> 0, unique_id |-> <<0, 0>>]

\* no message is being built
NoMessage == [built |-> FALSE, to |-> None, subject |-> None,
              logo_part |-> FALSE, text |-> 0, html |-> NoHtml]

EmptyResults == [e \in {} |-> "False"]

\* no "Done! n/m" line was printed
NoReport == <<>>

\* the state after EmailSender() for a configuration with one of the logo
\* URLs `urls` and one of the directories `dirs`
InitWith(urls, dirs) ==
  /\ pc = "main"
  /\ config \in ConfigKinds
  /\ recipients \in dirs
  /\ (config # "full" => recipients = <<>>)
  /\ logo_url \in urls
  /\ (config = "empty" => logo_url = "")
  /\ choice = None
  /\ mode = None
  /\ idx = 0
  /\ server = 0
  /\ results = EmptyResults
  /\ call = NoCall
  /\ retval = None
  /\ sessions = <<>>
  /\ dispatched = <<>>
  /\ transmitted = <<>>
  /\ test_success = None
  /\ proceed = None
  /\ report = NoReport
  /\ ending = "running"
  /\ logo_data = None
  /\ logo_msg_id = NoMsgId
  /\ fetches = 0
  /\ subject = None
  /\ meet_info = NoMeetInfo
  /\ send_test = FALSE
  /\ test_email = None
  /\ message = NoMessage
  /\ rendered = <<>>

\* configurations without logo_url, every directory
Init == InitWith({""}, Directories)

(* --------------------------- SMTP sessions ----------------------------- *)

\* smtplib.SMTP(host, port): a new connected session, or no session when
\* the constructor raises (the attempt is kept, with state "failed")
Connect(ss, kind, o) ==
  Append(ss, [kind |-> kind,
              state |-> IF o = "ok" THEN "connected" ELSE "failed",
              open |-> (o = "ok")])

SetState(ss, id, st) == [ss EXCEPT ![id].state = st]

\* WithExit leaving the session as it is
WithExit_Leak(ss, id) == ss

\* leaving a `with smtplib.SMTP(...)` block: the session is closed on normal
\* completion and on an exception alike
WithExit(ss, id) == [ss EXCEPT ![id].open = FALSE]

OpenSessions == {i \in DOMAIN sessions : sessions[i].open}


(* ------------------------- _get_logo_data ------------------------------ *)

\* `if self._logo_data:` -- the cache holds (non-empty) bytes
Cached(data) == Truthy(data)

\* GetLogoData letting the exception of the download through
GetLogoData_Propagate(data, msg_id, url, f, n) ==
  IF Cached(data)
    THEN [data |-> data, msg_id |-> msg_id, fetched |-> FALSE, raised |-> FALSE,
          cache_data |-> data, cache_id |-> msg_id]
    ELSE IF ~Truthy(url)
      THEN [data |-> None, msg_id |-> NoMsgId, fetched |-> FALSE, raised |-> FALSE,
            cache_data |-> data, cache_id |-> msg_id]
      ELSE IF f = "raise"
        THEN [data |-> None, msg_id |-> NoMsgId, fetched |-> TRUE, raised |-> TRUE,
              cache_data |-> data, cache_id |-> msg_id]
        ELSE [data |-> BytesOf(f), msg_id |-> MsgId(n), fetched |-> TRUE,
              raised |-> FALSE,
              cache_data |-> BytesOf(f), cache_id |-> MsgId(n)]

\* _get_logo_data with the cache (data, msg_id), the configured url, the
\* outcome f of the download and the number n of the next message id: the
\* pair it returns (data, msg_id), the cache it leaves (cache_data, cache_id),
\* whether it called urlopen, and whether it raised
GetLogoData(data, msg_id, url, f, n) ==
  IF Cached(data)
    THEN [data |-> data, msg_id |-> msg_id, fetched |-> FALSE, raised |-> FALSE,
          cache_data |-> data, cache_id |-> msg_id]
    ELSE IF ~Truthy(url)
      THEN [data |-> None, msg_id |-> NoMsgId, fetched |-> FALSE, raised |-> FALSE,
            cache_data |-> data, cache_id |-> msg_id]
      ELSE IF f = "raise"
        THEN [data |-> None, msg_id |-> NoMsgId, fetched |-> TRUE, raised |-> FALSE,
              cache_data |-> data, cache_id |-> msg_id]
        ELSE [data |-> BytesOf(f), msg_id |-> MsgId(n), fetched |-> TRUE,
              raised |-> FALSE,
              cache_data |-> BytesOf(f), cache_id |-> MsgId(n)]

\* the downloads a call of _get_logo_data can see: none when it does not
\* call urlopen
FetchChoices(data, url) ==
  IF Cached(data) \/ ~Truthy(url) THEN {"none"} ELSE FetchOutcomes

(* ---------------------- _create_html_template -------------------------- *)

\* unique_id: the timestamp of now and a random number
UniqueId(now, rnd) == <<now.stamp, rnd>>

\* FooterYear printing the whole instant
FooterYear_Stamp(now) == now.stamp

\* the footer's {datetime.now().year}
FooterYear(now) == now.year

\* CreateHtmlTemplate with date and time of the invitation exchanged
CreateHtmlTemplate_Swapped(recipient_name, subj, m, certificate_url, minfo, logo_cid, now, rnd) ==
  [title |-> subj,
   header_cid |-> logo_cid,
   kind |-> IF m = "meet" /\ minfo.given THEN "meet" ELSE "certificate",
   dear |-> recipient_name,
   topic |-> IF m = "meet" /\ minfo.given THEN minfo.topic ELSE None,
   date |-> IF m = "meet" /\ minfo.given THEN minfo.time ELSE None,
   time |-> IF m = "meet" /\ minfo.given THEN minfo.date ELSE None,
   link |-> IF m = "meet" /\ minfo.given THEN minfo.link ELSE None,
   href |-> IF m = "meet" /\ minfo.given THEN None ELSE certificate_url,
   year |-> FooterYear(now),
   unique_id |-> UniqueId(now, rnd)]

\* the HTML document without its fixed markup: the <title>, the content id
\* of the logo in the header (NoMsgId: the text-only header), the
\* paragraphs of the mode (the invitation with topic, date, time and link,
\* or the certificate text with the download link), the year of the footer
\* and the hidden unique_id
CreateHtmlTemplate(recipient_name, subj, m, certificate_url, minfo, logo_cid, now, rnd) ==
  [title |-> subj,
   header_cid |-> logo_cid,
   kind |-> IF m = "meet" /\ minfo.given THEN "meet" ELSE "certificate",
   dear |-> recipient_name,
   topic |-> IF m = "meet" /\ minfo.given THEN minfo.topic ELSE None,
   date |-> IF m = "meet" /\ minfo.given THEN minfo.date ELSE None,
   time |-> IF m = "meet" /\ minfo.given THEN minfo.time ELSE None,
   link |-> IF m = "meet" /\ minfo.given THEN minfo.link ELSE None,
   href |-> IF m = "meet" /\ minfo.given THEN None ELSE certificate_url,
   year |-> FooterYear(now),
   unique_id |-> UniqueId(now, rnd)]

(* ----------------------------- send_email ------------------------------ *)

\* a caller invokes send_email(...) and waits at `ret` for its value
Invoke(to, subj, name, m, cert, minfo, srv, entry, ret) ==
  /\ call' = [to |-> to, subject |-> subj, name |-> name, mode |-> m,
              certificate_url |-> cert, meet_info |-> minfo,
              server |-> srv, entry |-> entry, ret |-> ret]
  /\ dispatched' = Append(dispatched,
                     [to |-> to, name |-> name, mode |-> m,
                      certificate_url |-> cert, server |-> srv,
                      entry |-> entry, result |-> None,
                      fetched |-> FALSE, logo_part |-> FALSE,
                      attempted |-> FALSE])
  /\ pc' = "send_email"

\* NoConfig taking every configuration as loaded
NoConfig_Never(c) == FALSE

\* `if not self.config:`
NoConfig(c) == c = "empty"

\* UseServer ignoring the supplied connection
UseServer_Never(srv) == FALSE

\* `if server:` -- an existing connection was passed in
UseServer(srv) == srv # 0

\* SendEmailReturn letting the exception through to the caller
SendEmailReturn_Propagate(outcome) == IF outcome = "ok" THEN "True" ELSE "Raised"

\* the try/except around the body of send_email: the body's completion is
\* a True return, any exception a False return
SendEmailReturn(outcome) == IF outcome = "ok" THEN "True" ELSE "False"

\* send_email hands `v` to its caller
Return(v) ==
  /\ retval' = v
  /\ dispatched' = [dispatched EXCEPT ![Len(dispatched)].result = v]
  /\ message' = NoMessage
  /\ pc' = call.ret

\* the one-off session of the running call
NewServer == Len(sessions)

\* the transport of the running call is reached
Attempt == dispatched' = [dispatched EXCEPT ![Len(dispatched)].attempted = TRUE]

\* the configuration guard, the logo, the construction of the message with
\* its text and HTML parts, and the choice between the supplied and a new
\* connection
SendEmailBegin ==
  /\ pc = "send_email"
  /\ IF NoConfig(config)
       THEN /\ Return("False")
            /\ UNCHANGED logo
       ELSE \E f \in FetchChoices(logo_data, logo_url),
               now \in Instants, rnd \in Randoms :
              LET g == GetLogoData(logo_data, logo_msg_id, logo_url, f, fetches + 1)
                  has_logo == Truthy(g.data) /\ g.msg_id # NoMsgId
                  logo_cid_value == IF has_logo THEN StripBrackets(g.msg_id)
                                                ELSE NoMsgId
              IN  /\ logo_data' = g.cache_data
                  /\ logo_msg_id' = g.cache_id
                  /\ fetches' = IF g.fetched THEN fetches + 1 ELSE fetches
                  /\ IF g.raised
                       THEN Return(SendEmailReturn("raise"))
                       ELSE /\ message' =
                                 [built |-> TRUE, to |-> call.to,
                                  subject |-> call.subject,
                                  logo_part |-> has_logo,
                                  text |-> call.name,
                                  html |-> CreateHtmlTemplate(
                                             call.name, call.subject, call.mode,
                                             call.certificate_url, call.meet_info,
                                             logo_cid_value, now, rnd)]
                            /\ dispatched' =
                                 [dispatched EXCEPT
                                    ![Len(dispatched)].fetched = g.fetched,
                                    ![Len(dispatched)].logo_part = has_logo]
                            /\ pc' = IF UseServer(call.server)
                                       THEN "server_sendmail" ELSE "new_server"
                            /\ UNCHANGED retval
  /\ UNCHANGED <<logo_url, rendered, typed, config, recipients, choice, mode, idx, server,
                 results, call, sessions, transmitted, test_success, proceed,
                 report, ending>>

\* the message the relay accepted for the running call over session s
Accepted(s) ==
  [to |-> call.to, session |-> s, entry |-> call.entry,
   dispatch |-> Len(dispatched), logo_part |-> message.logo_part]

\* server.sendmail(...) on the supplied connection
ServerSendmail ==
  /\ pc = "server_sendmail"
  /\ \E o \in Outcomes :
       /\ transmitted' = IF o = "ok" THEN Append(transmitted, Accepted(call.server))
                                     ELSE transmitted
       /\ retval' = SendEmailReturn(o)
       /\ dispatched' = [dispatched EXCEPT
                           ![Len(dispatched)].result = SendEmailReturn(o),
                           ![Len(dispatched)].attempted = TRUE]
       /\ message' = NoMessage
       /\ pc' = call.ret
  /\ UNCHANGED <<logo_url, rendered, logo, typed, config, recipients, choice, mode, idx,
                 server, results, call, sessions, test_success, proceed,
                 report, ending>>

\* with smtplib.SMTP(self.smtp_server, self.smtp_port) as new_server
NewServerConnect ==
  /\ pc = "new_server"
  /\ \E o \in Outcomes :
       /\ sessions' = Connect(sessions, "oneoff", o)
       /\ IF o = "ok"
            THEN /\ pc' = "new_server_starttls"
                 /\ Attempt
                 /\ UNCHANGED <<retval, message>>
            ELSE /\ retval' = SendEmailReturn(o)
                 /\ dispatched' = [dispatched EXCEPT
                                     ![Len(dispatched)].result = SendEmailReturn(o),
                                     ![Len(dispatched)].attempted = TRUE]
                 /\ message' = NoMessage
                 /\ pc' = call.ret
  /\ UNCHANGED <<logo_url, rendered, logo, typed, config, recipients, choice, mode, idx,
                 server, results, call, transmitted, test_success, proceed,
                 report, ending>>

\* new_server.starttls(context=context)
NewServerStarttls ==
  /\ pc = "new_server_starttls"
  /\ \E o \in Outcomes :
       IF o = "ok"
         THEN /\ sessions' = SetState(sessions, NewServer, "tls")
              /\ pc' = "new_server_login"
              /\ UNCHANGED <<retval, dispatched, message>>
         ELSE /\ sessions' = WithExit(sessions, NewServer)
              /\ Return(SendEmailReturn(o))
  /\ UNCHANGED <<logo_url, rendered, logo, typed, config, recipients, choice, mode, idx,
                 server, results, call, transmitted, test_success, proceed,
                 report, ending>>

\* new_server.login(sender_email, app_password)
NewServerLogin ==
  /\ pc = "new_server_login"
  /\ \E o \in Outcomes :
       IF o = "ok"
         THEN /\ sessions' = SetState(sessions, NewServer, "auth")
              /\ pc' = "new_server_sendmail"
              /\ UNCHANGED <<retval, dispatched, message>>
         ELSE /\ sessions' = WithExit(sessions, NewServer)
              /\ Return(SendEmailReturn(o))
  /\ UNCHANGED <<logo_url, rendered, logo, typed, config, recipients, choice, mode, idx,
                 server, results, call, transmitted, test_success, proceed,
                 report, ending>>

\* new_server.sendmail(...), then the end of the with block: the session is
\* closed, and the QUIT of the exit may itself raise inside the try
NewServerSendmail ==
  /\ pc = "new_server_sendmail"
  /\ \E o \in Outcomes, quit \in Outcomes :
       /\ transmitted' = IF o = "ok" THEN Append(transmitted, Accepted(NewServer))
                                     ELSE transmitted
       /\ sessions' = WithExit(sessions, NewServer)
       /\ Return(SendEmailReturn(IF o = "ok" THEN quit ELSE o))
  /\ UNCHANGED <<logo_url, rendered, logo, typed, config, recipients, choice, mode, idx,
                 server, results, call, test_success, proceed, report, ending>>

SendEmail ==
  \/ SendEmailBegin
  \/ ServerSendmail
  \/ NewServerConnect
  \/ NewServerStarttls
  \/ NewServerLogin
  \/ NewServerSendmail

(* ------------------------ helpers of the workflows --------------------- *)

\* results[email] = success
SetItem(d, k, v) == [e \in DOMAIN d \cup {k} |-> IF e = k THEN v ELSE d[e]]

\* NextEntry stepping over an entry
NextEntry_Skip(i) == i + 2

\* the for loop over config['recipients'].items(): the entry after entry i
NextEntry(i) == i + 1

\* FirstRecipientKey taking the last entry
FirstRecipientKey_Last(dir) == Len(dir)

\* next(iter(config['recipients'])): the name of the first entry
FirstRecipientKey(dir) == 1

\* an exception leaves the program through main: nothing catches it
Crash ==
  /\ pc' = "done"
  /\ ending' = "crashed"

(* -------------------------------- main --------------------------------- *)

Choices == {"1", "2", "3", "4", "5"}

\* sender = EmailSender(); the configuration guard; the menu
Main ==
  /\ pc = "main"
  /\ IF config = "empty"
       THEN /\ pc' = "done"
            /\ ending' = "returned"
            /\ UNCHANGED <<choice, mode>>
       ELSE \E c \in Choices :
              /\ choice' = c
              /\ mode' = CASE c = "2" -> "certificate"
                           [] c = "4" -> "meet"
                           [] OTHER -> None
              /\ pc' = CASE c = "1" -> "manual"
                         [] c = "2" -> "cert_start"
                         [] c = "3" -> "custom"
                         [] c = "4" -> "meet_start"
                         [] OTHER -> "done"
              /\ ending' = IF c = "5" THEN "returned" ELSE ending
  /\ UNCHANGED <<logo_url, rendered, logo, typed, message, config, recipients, idx, server, results, call, retval,
                 sessions, dispatched, transmitted, test_success, proceed,
                 report>>

\* the subject of the certificate e-mails: the typed line, or the default
CertSubject(line) ==
  IF Strip(line) = "" THEN "Your Certificate of Participation" ELSE Strip(line)

\* a client of the class calls send_email on its EmailSender without main:
\* the configuration guard of main is not in the way
DirectSendEmail ==
  /\ pc = "main"
  /\ \E email \in TypedEmails, cert_url \in CertUrls \cup {""} :
       Invoke(email, "", 0, "certificate", cert_url, NoMeetInfo, 0, 0,
              "single_sent")
  /\ UNCHANGED <<logo_url, rendered, logo, typed, message, config, recipients, choice,
                 mode, idx, server, results, retval, sessions, transmitted,
                 test_success, proceed, report, ending>>

\* choice 1: one certificate e-mail typed in by the operator
ManualSend ==
  /\ pc = "manual"
  /\ \E email \in TypedEmails, line \in SubjectLines,
        cert_url \in CertUrls \cup {""} :
       Invoke(email, Strip(line), 0, "certificate", cert_url, NoMeetInfo, 0, 0,
              "single_sent")
  /\ UNCHANGED <<logo_url, rendered, logo, typed, message, config, recipients, choice, mode, idx, server, results,
                 retval, sessions, transmitted, test_success, proceed, report,
                 ending>>

\* choice 3: one custom certificate e-mail
CustomSend ==
  /\ pc = "custom"
  /\ \E email \in TypedEmails, line \in SubjectLines,
        cert_url \in CertUrls \cup {""} :
       Invoke(email, CertSubject(line), 0, "certificate", cert_url, NoMeetInfo,
              0, 0, "single_sent")
  /\ UNCHANGED <<logo_url, rendered, logo, typed, message, config, recipients, choice, mode, idx, server, results,
                 retval, sessions, transmitted, test_success, proceed, report,
                 ending>>

\* the end of choices 1 and 3, after send_email gave its value
SingleSent ==
  /\ pc = "single_sent"
  /\ IF retval = "Raised"
       THEN Crash
       ELSE /\ pc' = "done"
            /\ ending' = "returned"
  /\ UNCHANGED <<logo_url, rendered, logo, typed, message, config, recipients, choice, mode, idx, server, results, call,
                 retval, sessions, dispatched, transmitted, test_success,
                 proceed, report>>

(* ------------------- choice 2: bulk certificate e-mails ---------------- *)

\* sample_cert_url of the test e-mail: '#', or the first entry's
\* certificate_url (default '#') when the entry is an object
CertSampleUrl(details) ==
  IF details.kind = "dict" /\ details.certificate_url # None
    THEN details.certificate_url
    ELSE DefaultCertUrl

\* CertGate aborting on 'n' only
CertGate_UnlessN(success, answer) == success = "True" /\ StripLower(answer) # "n"

\* `if test_success:` followed by the proceed prompt: TRUE when the bulk
\* phase is entered
CertGate(success, answer) == success = "True" /\ StripLower(answer) = "y"

\* email of a directory entry: details.get('email'), or the bare string
CertEmail(details) == details.email

\* CertUrl without the '#' default
CertUrl_NoDefault(details) == details.certificate_url

\* cert_url of a directory entry: details.get('certificate_url', '#'), or '#'
CertUrl(details) ==
  IF details.kind = "dict" /\ details.certificate_url # None
    THEN details.certificate_url
    ELSE DefaultCertUrl

\* `if not email:` -- the entry is skipped
CertSkip(email) == ~Truthy(email)

\* sum(1 for r in results.values() if r), len(results)
CertReportOf(res) ==
  <<Cardinality({e \in DOMAIN res : res[e] = "True"}), Cardinality(DOMAIN res)>>

\* the 'recipients' guard and the subject prompt
CertStart ==
  /\ pc = "cert_start"
  /\ IF config = "norecipients"
       THEN /\ pc' = "done"
            /\ ending' = "returned"
            /\ UNCHANGED subject
       ELSE /\ \E line \in SubjectLines : subject' = CertSubject(line)
            /\ pc' = "cert_test"
            /\ UNCHANGED ending
  /\ UNCHANGED <<logo_url, rendered, logo, meet_info, send_test, test_email, message,
                 config, recipients, choice, mode, idx, server, results, call,
                 retval, sessions, dispatched, transmitted, test_success,
                 proceed, report>>

\* "Send a test email first?", the test address, the sample data of the
\* first entry (next(iter(...)) raises StopIteration on an empty directory)
CertTestPhase ==
  /\ pc = "cert_test"
  /\ \E answer \in Answers, address \in TypedEmails :
       /\ send_test' = (StripLower(answer) = "y")
       /\ test_email' = IF StripLower(answer) = "y" THEN address ELSE None
       /\ IF StripLower(answer) = "y" /\ Truthy(address)
            THEN IF recipients = <<>>
                   THEN /\ Crash
                        /\ UNCHANGED <<call, dispatched>>
                   ELSE /\ Invoke(address, subject,
                                  FirstRecipientKey(recipients), "certificate",
                                  CertSampleUrl(recipients[FirstRecipientKey(recipients)]),
                                  NoMeetInfo, 0, 0, "cert_after_test")
                        /\ UNCHANGED ending
            ELSE /\ pc' = "cert_open"
                 /\ UNCHANGED <<call, dispatched, ending>>
  /\ UNCHANGED <<logo_url, rendered, logo, subject, meet_info, message, config,
                 recipients, choice, mode, idx, server, results, retval,
                 sessions, transmitted, test_success, proceed, report>>

\* the outcome of the test e-mail and the proceed prompt
CertAfterTest ==
  /\ pc = "cert_after_test"
  /\ IF retval = "Raised"
       THEN /\ Crash
            /\ UNCHANGED <<test_success, proceed>>
       ELSE /\ test_success' = retval
            /\ \E answer \in Answers :
                 /\ proceed' = IF retval = "True" THEN StripLower(answer)
                                                  ELSE proceed
                 /\ IF CertGate(retval, answer)
                      THEN /\ pc' = "cert_open"
                           /\ UNCHANGED ending
                      ELSE /\ pc' = "done"
                           /\ ending' = "aborted"
  /\ UNCHANGED <<logo_url, rendered, logo, typed, message, config, recipients, choice, mode, idx, server, results, call,
                 retval, sessions, dispatched, transmitted, report>>

\* with smtplib.SMTP(...) as server, inside the try
CertOpen ==
  /\ pc = "cert_open"
  /\ \E o \in Outcomes :
       /\ sessions' = Connect(sessions, "shared", o)
       /\ IF o = "ok"
            THEN /\ server' = Len(sessions) + 1
                 /\ pc' = "cert_starttls"
            ELSE /\ pc' = "cert_report"
                 /\ UNCHANGED server
  /\ UNCHANGED <<logo_url, rendered, logo, typed, message, config, recipients, choice, mode, idx, results, call, retval,
                 dispatched, transmitted, test_success, proceed, report,
                 ending>>

\* server.starttls(context=context)
CertStarttls ==
  /\ pc = "cert_starttls"
  /\ \E o \in Outcomes :
       IF o = "ok"
         THEN /\ sessions' = SetState(sessions, server, "tls")
              /\ pc' = "cert_login"
         ELSE /\ sessions' = WithExit(sessions, server)
              /\ pc' = "cert_report"
  /\ UNCHANGED <<logo_url, rendered, logo, typed, message, config, recipients, choice, mode, idx, server, results, call,
                 retval, dispatched, transmitted, test_success, proceed,
                 report, ending>>

\* server.login(sender_email, app_password)
CertLogin ==
  /\ pc = "cert_login"
  /\ \E o \in Outcomes :
       IF o = "ok"
         THEN /\ sessions' = SetState(sessions, server, "auth")
              /\ idx' = 1
              /\ pc' = "cert_loop"
         ELSE /\ sessions' = WithExit(sessions, server)
              /\ pc' = "cert_report"
              /\ UNCHANGED idx
  /\ UNCHANGED <<logo_url, rendered, logo, typed, message, config, recipients, choice, mode, server, results, call,
                 retval, dispatched, transmitted, test_success, proceed,
                 report, ending>>

\* one iteration of the for loop up to the call of send_email; after the
\* last entry the with block is left
CertLoop ==
  /\ pc = "cert_loop"
  /\ IF idx > Len(recipients)
       THEN /\ sessions' = WithExit(sessions, server)
            /\ pc' = "cert_report"
            /\ UNCHANGED <<idx, call, dispatched>>
       ELSE IF CertSkip(CertEmail(recipients[idx]))
              THEN /\ idx' = NextEntry(idx)
                   /\ UNCHANGED <<pc, sessions, call, dispatched>>
              ELSE /\ Invoke(CertEmail(recipients[idx]), subject, idx,
                             "certificate", CertUrl(recipients[idx]),
                             NoMeetInfo, server, idx, "cert_record")
                   /\ UNCHANGED <<idx, sessions>>
  /\ UNCHANGED <<logo_url, rendered, logo, typed, message, config, recipients, choice, mode, server, results, retval,
                 transmitted, test_success, proceed, report, ending>>

\* results[email] = success; an exception out of send_email would leave the
\* with block and reach the except clause
CertRecord ==
  /\ pc = "cert_record"
  /\ IF retval = "Raised"
       THEN /\ sessions' = WithExit(sessions, server)
            /\ pc' = "cert_report"
            /\ UNCHANGED <<results, idx>>
       ELSE /\ results' = SetItem(results, call.to, retval)
            /\ idx' = NextEntry(idx)
            /\ pc' = "cert_loop"
            /\ UNCHANGED sessions
  /\ UNCHANGED <<logo_url, rendered, logo, typed, message, config, recipients, choice, mode, server, call, retval,
                 dispatched, transmitted, test_success, proceed, report,
                 ending>>

\* "Done! {success_count}/{len(results)} certificates sent successfully."
CertReport ==
  /\ pc = "cert_report"
  /\ report' = CertReportOf(results)
  /\ pc' = "done"
  /\ ending' = "reported"
  /\ UNCHANGED <<logo_url, rendered, logo, typed, message, config, recipients, choice, mode, idx, server, results, call,
                 retval, sessions, dispatched, transmitted, test_success,
                 proceed>>

CertBulk ==
  \/ CertStart
  \/ CertTestPhase
  \/ CertAfterTest
  \/ CertOpen
  \/ CertStarttls
  \/ CertLogin
  \/ CertLoop
  \/ CertRecord
  \/ CertReport

(* ---------------- choice 4: send_bulk_meet_invites -------------------- *)

\* MeetGate without the test of test_success
MeetGate_IgnoreFailure(success, answer) == StripLower(answer) = "y"

\* the subject of the invitations: the typed line, or the default
MeetSubject(line) ==
  IF Strip(line) = "" THEN "ICPEP.se Google Meet Invitation" ELSE Strip(line)

\* `if test_success:` followed by the proceed prompt: TRUE when the bulk
\* phase is entered
MeetGate(success, answer) == success = "True" /\ StripLower(answer) = "y"

\* details.get('email') if isinstance(details, dict) else details
MeetEmail(details) == details.email

\* MeetSkip testing for a missing e-mail only, not for an empty one
MeetSkip_NoneOnly(email) == email = None

\* `if not email:` -- the entry is skipped
MeetSkip(email) == ~Truthy(email)

\* sum(1 for r in results.values() if r), len(results)
MeetReportOf(res) ==
  <<Cardinality({e \in DOMAIN res : res[e] = "True"}), Cardinality(DOMAIN res)>>

\* the 'recipients' guard (return {}) and the prompts of the invitation
MeetStart ==
  /\ pc = "meet_start"
  /\ IF config = "norecipients"
       THEN /\ pc' = "meet_return"
            /\ UNCHANGED <<subject, meet_info>>
       ELSE /\ \E line \in SubjectLines : subject' = MeetSubject(line)
            /\ \E topic \in TopicLines, date \in DateLines, time \in TimeLines,
                  link \in LinkLines :
                 meet_info' = [given |-> TRUE, topic |-> Strip(topic),
                               date |-> Strip(date), time |-> Strip(time),
                               link |-> Strip(link)]
            /\ pc' = "meet_test"
  /\ UNCHANGED <<logo_url, rendered, logo, send_test, test_email, message, config,
                 recipients, choice, mode, idx, server, results, call,
                 retval, sessions, dispatched, transmitted, test_success,
                 proceed, report, ending>>

\* "Send a test email first?", the test address, the name of the first
\* entry (next(iter(...)) raises StopIteration on an empty directory)
MeetTestPhase ==
  /\ pc = "meet_test"
  /\ \E answer \in Answers, address \in TypedEmails :
       /\ send_test' = (StripLower(answer) = "y")
       /\ test_email' = IF StripLower(answer) = "y" THEN address ELSE None
       /\ IF StripLower(answer) = "y" /\ Truthy(address)
            THEN IF recipients = <<>>
                   THEN /\ Crash
                        /\ UNCHANGED <<call, dispatched>>
                   ELSE /\ Invoke(address, subject,
                                  FirstRecipientKey(recipients), "meet", None,
                                  meet_info, 0, 0, "meet_after_test")
                        /\ UNCHANGED ending
            ELSE /\ pc' = "meet_open"
                 /\ UNCHANGED <<call, dispatched, ending>>
  /\ UNCHANGED <<logo_url, rendered, logo, subject, meet_info, message, config,
                 recipients, choice, mode, idx, server, results, retval,
                 sessions, transmitted, test_success, proceed, report>>

\* the outcome of the test e-mail and the proceed prompt; an abort is
\* `return {}`
MeetAfterTest ==
  /\ pc = "meet_after_test"
  /\ IF retval = "Raised"
       THEN /\ Crash
            /\ UNCHANGED <<test_success, proceed>>
       ELSE /\ test_success' = retval
            /\ \E answer \in Answers :
                 /\ proceed' = IF retval = "True" THEN StripLower(answer)
                                                  ELSE proceed
                 /\ IF MeetGate(retval, answer)
                      THEN /\ pc' = "meet_open"
                           /\ UNCHANGED ending
                      ELSE /\ pc' = "meet_return"
                           /\ ending' = "aborted"
  /\ UNCHANGED <<logo_url, rendered, logo, typed, message, config, recipients, choice, mode, idx, server, results, call,
                 retval, sessions, dispatched, transmitted, report>>

\* with smtplib.SMTP(...) as server, inside the try
MeetOpen ==
  /\ pc = "meet_open"
  /\ \E o \in Outcomes :
       /\ sessions' = Connect(sessions, "shared", o)
       /\ IF o = "ok"
            THEN /\ server' = Len(sessions) + 1
                 /\ pc' = "meet_starttls"
            ELSE /\ pc' = "meet_return"
                 /\ UNCHANGED server
  /\ UNCHANGED <<logo_url, rendered, logo, typed, message, config, recipients, choice, mode, idx, results, call, retval,
                 dispatched, transmitted, test_success, proceed, report,
                 ending>>

\* server.starttls(context=context)
MeetStarttls ==
  /\ pc = "meet_starttls"
  /\ \E o \in Outcomes :
       IF o = "ok"
         THEN /\ sessions' = SetState(sessions, server, "tls")
              /\ pc' = "meet_login"
         ELSE /\ sessions' = WithExit(sessions, server)
              /\ pc' = "meet_return"
  /\ UNCHANGED <<logo_url, rendered, logo, typed, message, config, recipients, choice, mode, idx, server, results, call,
                 retval, dispatched, transmitted, test_success, proceed,
                 report, ending>>

\* MeetLogin going on to the loop after a failed login
MeetLogin_IgnoreError ==
  /\ pc = "meet_login"
  /\ \E o \in Outcomes :
       /\ sessions' = IF o = "ok" THEN SetState(sessions, server, "auth")
                                  ELSE sessions
       /\ idx' = 1
       /\ pc' = "meet_loop"
  /\ UNCHANGED <<logo_url, rendered, logo, typed, message, config, recipients, choice, mode, server, results, call,
                 retval, dispatched, transmitted, test_success, proceed,
                 report, ending>>

\* server.login(sender_email, app_password)
MeetLogin ==
  /\ pc = "meet_login"
  /\ \E o \in Outcomes :
       IF o = "ok"
         THEN /\ sessions' = SetState(sessions, server, "auth")
              /\ idx' = 1
              /\ pc' = "meet_loop"
         ELSE /\ sessions' = WithExit(sessions, server)
              /\ pc' = "meet_return"
              /\ UNCHANGED idx
  /\ UNCHANGED <<logo_url, rendered, logo, typed, message, config, recipients, choice, mode, server, results, call,
                 retval, dispatched, transmitted, test_success, proceed,
                 report, ending>>

\* one iteration of the for loop up to the call of send_email; after the
\* last entry the with block is left
MeetLoop ==
  /\ pc = "meet_loop"
  /\ IF idx > Len(recipients)
       THEN /\ sessions' = WithExit(sessions, server)
            /\ pc' = "meet_return"
            /\ UNCHANGED <<idx, call, dispatched>>
       ELSE IF MeetSkip(MeetEmail(recipients[idx]))
              THEN /\ idx' = NextEntry(idx)
                   /\ UNCHANGED <<pc, sessions, call, dispatched>>
              ELSE /\ Invoke(MeetEmail(recipients[idx]), subject, idx, "meet",
                             None, meet_info, server, idx, "meet_record")
                   /\ UNCHANGED <<idx, sessions>>
  /\ UNCHANGED <<logo_url, rendered, logo, typed, message, config, recipients, choice, mode, server, results, retval,
                 transmitted, test_success, proceed, report, ending>>

\* results[email] = success; an exception out of send_email would leave the
\* with block and reach the except clause
MeetRecord ==
  /\ pc = "meet_record"
  /\ IF retval = "Raised"
       THEN /\ sessions' = WithExit(sessions, server)
            /\ pc' = "meet_return"
            /\ UNCHANGED <<results, idx>>
       ELSE /\ results' = SetItem(results, call.to, retval)
            /\ idx' = NextEntry(idx)
            /\ pc' = "meet_loop"
            /\ UNCHANGED sessions
  /\ UNCHANGED <<logo_url, rendered, logo, typed, message, config, recipients, choice, mode, server, call, retval,
                 dispatched, transmitted, test_success, proceed, report,
                 ending>>

\* back in main: "Done! {success}/{total} invites sent successfully."
MeetReturn ==
  /\ pc = "meet_return"
  /\ report' = MeetReportOf(results)
  /\ pc' = "done"
  /\ ending' = IF ending = "aborted" THEN "aborted" ELSE "reported"
  /\ UNCHANGED <<logo_url, rendered, logo, typed, message, config, recipients, choice, mode, idx, server, results, call,
                 retval, sessions, dispatched, transmitted, test_success,
                 proceed>>

MeetBulk ==
  \/ MeetStart
  \/ MeetTestPhase
  \/ MeetAfterTest
  \/ MeetOpen
  \/ MeetStarttls
  \/ MeetLogin
  \/ MeetLoop
  \/ MeetRecord
  \/ MeetReturn

(* --------------------------- specification ----------------------------- *)

Next ==
  \/ Main
  \/ DirectSendEmail
  \/ ManualSend
  \/ CustomSend
  \/ SingleSent
  \/ SendEmail
  \/ CertBulk
  \/ MeetBulk

Spec == Init /\ [][Next]_vars

\* the same program for configurations with or without logo_url
InitLogo == InitWith(LogoUrls, LogoDirectories)

LogoSpec == InitLogo /\ [][Next]_vars

(* ---------------- _create_html_template called alone ------------------- *)

\* number of calls of _create_html_template on the same arguments
MaxRenders == 2

\* arguments of _create_html_template
RenderSubjects == {"Your Certificate of Participation", "Hi"}

RenderMeetInfos ==
  {NoMeetInfo,
   [given |-> TRUE, topic |-> "ML Overview", date |-> "Oct 30, 2025",
    time |-> "8-9PM", link |-> "https://meet.x/abc"],
   [given |-> TRUE, topic |-> "", date |-> "Nov 2", time |-> "9AM",
    link |-> "https://meet.x/xyz"]}

RenderCalls ==
  [to : {None}, subject : RenderSubjects, name : {1, 2},
   mode : {"certificate", "meet"}, certificate_url : CertUrls \cup {DefaultCertUrl},
   meet_info : RenderMeetInfos, server : {0}, entry : {0}, ret : {None}]

\* the arguments are drawn; logo_msg_id holds the logo_cid argument
InitRender ==
  /\ pc = "render"
  /\ call \in RenderCalls
  /\ logo_msg_id \in {NoMsgId, StripBrackets(MsgId(1))}
  /\ config = "full"
  /\ recipients = <<>>
  /\ logo_url = ""
  /\ choice = None
  /\ mode = None
  /\ idx = 0
  /\ server = 0
  /\ results = EmptyResults
  /\ retval = None
  /\ sessions = <<>>
  /\ dispatched = <<>>
  /\ transmitted = <<>>
  /\ test_success = None
  /\ proceed = None
  /\ report = NoReport
  /\ ending = "running"
  /\ logo_data = None
  /\ fetches = 0
  /\ subject = None
  /\ meet_info = NoMeetInfo
  /\ send_test = FALSE
  /\ test_email = None
  /\ message = NoMessage
  /\ rendered = <<>>

\* one call of _create_html_template on the drawn arguments, at some instant
\* and with some random number
RenderTemplate ==
  /\ pc = "render"
  /\ Len(rendered) < MaxRenders
  /\ \E now \in Instants, rnd \in Randoms :
       rendered' = Append(rendered,
                     [at |-> now,
                      html |-> CreateHtmlTemplate(
                                 call.name, call.subject, call.mode,
                                 call.certificate_url, call.meet_info,
                                 logo_msg_id, now, rnd)])
  /\ UNCHANGED <<pc, config, recipients, choice, mode, idx, server, results,
                 call, retval, sessions, dispatched, transmitted, test_success,
                 proceed, report, ending, logo_url, logo, typed, message>>

NextRender == RenderTemplate

RenderSpec == InitRender /\ [][NextRender]_vars

(* ------------------------ views of the history ------------------------- *)

\* the send_email calls made for directory entries (the bulk phase)
BulkDispatches == {k \in DOMAIN dispatched : dispatched[k].entry > 0}

\* the shared sessions of the bulk phase that were opened
SharedSessions ==
  {i \in DOMAIN sessions : sessions[i].kind = "shared" /\ sessions[i].state # "failed"}

\* the directory entries with a non-empty e-mail
WithEmail == {i \in DOMAIN recipients : Truthy(recipients[i].email)}

\* the for loop has gone through the whole directory
LoopFinished == idx > Len(recipients)

\* the last finished send_email call of the bulk phase to address e
LastDispatchTo(e) ==
  LET ks == {k \in BulkDispatches :
               dispatched[k].to = e /\ dispatched[k].result # None}
  IN  CHOOSE k \in ks : \A j \in ks : j <= k

(* ------------------------------- claims -------------------------------- *)

\* C1: in both bulk workflows, once the test send has returned failure the
\* run is aborted: no shared session is ever opened and no send_email call
\* is made for a directory recipient.
C1_TestFailureAborts ==
  test_success = "False" =>
    /\ ending = "aborted"
    /\ pc \in {"done", "meet_return"}
    /\ server = 0
    /\ \A i \in DOMAIN sessions : sessions[i].kind # "shared"
    /\ BulkDispatches = {}

C1_Witness ==
  /\ pc = "done"
  /\ test_success = "False"
  /\ WithEmail # {}
  /\ Len(dispatched) = 1

\* C2: after a successful test send, any answer other than 'y' to the
\* proceed prompt leaves the result mapping empty, with no send_email call
\* for a directory recipient and no shared session.
C2_DeclineAborts ==
  (test_success = "True" /\ proceed # "y") =>
    /\ results = EmptyResults
    /\ BulkDispatches = {}
    /\ server = 0
    /\ \A i \in DOMAIN sessions : sessions[i].kind # "shared"
    /\ ending = "aborted"

C2_Witness ==
  /\ pc = "done"
  /\ test_success = "True"
  /\ proceed = "yes"
  /\ WithEmail # {}

PastBulk == pc \in {"cert_report", "meet_return", "done"}

\* send_email is running for a directory entry, or has just returned
InBulkCall ==
  /\ call.entry > 0
  /\ pc \in {"send_email", "server_sendmail", "new_server",
             "new_server_starttls", "new_server_login", "new_server_sendmail",
             "cert_record", "meet_record"}

\* the program is inside the for loop of a bulk phase
InBulkLoop == pc \in {"cert_loop", "meet_loop"} \/ InBulkCall

\* C4: send_email never lets an error through to its caller, and a failed
\* send never ends the batch: when the bulk phase is over, every directory
\* entry with an e-mail has been dispatched and recorded.
C4_FailureNeverAborts ==
  /\ retval \in {None, "True", "False"}
  /\ \A k \in DOMAIN dispatched : dispatched[k].result \in {None, "True", "False"}
  /\ (idx >= 1 /\ PastBulk =>
        \A i \in WithEmail :
          /\ \E k \in BulkDispatches : dispatched[k].entry = i
          /\ recipients[i].email \in DOMAIN results)

C4_Witness ==
  /\ pc = "done"
  /\ \E k \in BulkDispatches, j \in BulkDispatches :
       /\ k < j
       /\ dispatched[k].result = "False"
       /\ dispatched[j].result = "True"
       /\ results[dispatched[j].to] = "True"

\* C5: when the shared session cannot be opened, upgraded or authenticated,
\* no send_email call is made for a directory recipient, the result mapping
\* stays empty, and the run ends with the report 0 of 0.
C5_SessionFailureAborts ==
  \A i \in DOMAIN sessions :
    (sessions[i].kind = "shared" /\ ~sessions[i].open /\ sessions[i].state # "auth") =>
      /\ BulkDispatches = {}
      /\ results = EmptyResults
      /\ PastBulk
      /\ (pc = "done" => report = <<0, 0>> /\ ending = "reported")

C5_Witness ==
  /\ pc = "done"
  /\ WithEmail # {}
  /\ report = <<0, 0>>
  /\ \E i \in DOMAIN sessions :
       sessions[i].kind = "shared" /\ sessions[i].state = "tls" /\ ~sessions[i].open

\* C6: every session is released on every exit path: no session is open when
\* the run has ended, a one-off session is open only inside the with block of
\* send_email, and the shared session only inside the bulk phase.
C6_SessionsReleased ==
  /\ (pc = "done" => OpenSessions = {})
  /\ \A i \in OpenSessions :
       /\ (sessions[i].kind = "oneoff" =>
             pc \in {"new_server_starttls", "new_server_login", "new_server_sendmail"})
       /\ (sessions[i].kind = "shared" => ~PastBulk)

C6_Witness ==
  /\ pc = "done"
  /\ \E i \in DOMAIN sessions, j \in DOMAIN sessions :
       /\ sessions[i].kind = "oneoff" /\ sessions[i].state = "auth"
       /\ sessions[j].kind = "shared" /\ sessions[j].state = "tls"

\* C7: a bulk phase opens one shared session; every send_email call for a
\* directory recipient gets that authenticated session and transmits over
\* it; such a call opens no session and does not close the shared one, which
\* stays open until the loop is over.
C7_OneSharedSession ==
  /\ Cardinality(SharedSessions) <= 1
  /\ (server # 0 => SharedSessions = {server} /\ Len(sessions) = server)
  /\ \A k \in BulkDispatches :
       /\ dispatched[k].server = server
       /\ server \in SharedSessions
       /\ sessions[server].state = "auth"
  /\ \A t \in DOMAIN transmitted :
       transmitted[t].entry > 0 => transmitted[t].session = server
  /\ (InBulkLoop => OpenSessions = {server})

C7_Witness ==
  /\ pc = "meet_loop"
  /\ LoopFinished
  /\ Cardinality(BulkDispatches) >= 2
  /\ sessions[server].open
  /\ \E t \in DOMAIN transmitted : transmitted[t].session = server

\* C8: the result mapping never has more entries than the directory has
\* entries with a non-empty e-mail.
C8_ResultsBounded == Cardinality(DOMAIN results) <= Cardinality(WithEmail)

C8_Witness ==
  /\ pc = "done"
  /\ Cardinality(WithEmail) = 2
  /\ Cardinality(DOMAIN results) = 2
  /\ Len(recipients) = 3

\* the entries with an e-mail among the first n, in insertion order
RECURSIVE ExpectedOrder(_)
ExpectedOrder(n) ==
  IF n = 0 THEN <<>>
  ELSE IF n \in WithEmail THEN Append(ExpectedOrder(n - 1), n)
       ELSE ExpectedOrder(n - 1)

\* the entries send_email was called for, in the order of the calls
BulkOrder ==
  LET OfEntry(d) == d.entry > 0
      calls == SelectSeq(dispatched, OfEntry)
  IN  [k \in DOMAIN calls |-> calls[k].entry]

\* C9: once the loop of the bulk phase runs, send_email is called for the
\* entries with an e-mail in insertion order, once each, whatever the earlier
\* sends returned; the loop is only left after the last entry; an entry
\* without e-mail is never dispatched and puts nothing into the mapping.
C9_EachEntryOnceInOrder ==
  /\ (idx = 0 => BulkDispatches = {} /\ results = EmptyResults)
  /\ (idx >= 1 =>
        /\ BulkOrder = ExpectedOrder(IF InBulkCall THEN idx ELSE idx - 1)
        /\ DOMAIN results =
             {recipients[i].email :
                i \in WithEmail \cap 1..(idx - 1)}
        /\ (PastBulk => LoopFinished))

C9_Witness ==
  /\ pc = "done"
  /\ BulkOrder = <<1, 3>>
  /\ dispatched[Len(dispatched) - 1].result = "False"
  /\ dispatched[Len(dispatched)].result = "True"

\* C10: the report gives the number of send_email calls of the bulk phase as
\* the total and the number of those that returned True as the successes.
C10_ReportCountsDispatches ==
  report # NoReport =>
    /\ report[2] = Cardinality(BulkDispatches)
    /\ report[1] = Cardinality({k \in BulkDispatches : dispatched[k].result = "True"})


\* C11: configuration errors are fatal before any work begins.  A bulk run
\* (certificate or meet) on a configuration without a recipients directory
\* opens no session, calls send_email for nobody, transmits nothing and
\* leaves the result mapping empty; with the empty configuration of a
\* missing or malformed file main never reaches a bulk run, and every
\* send_email call returns False without opening a session or attempting a
\* transmission.
C11_ConfigErrorsFatal ==
  /\ (config # "full" /\ mode \in {"certificate", "meet"}) =>
       /\ sessions = <<>>
       /\ transmitted = <<>>
       /\ dispatched = <<>>
       /\ results = EmptyResults
       /\ ending \in {"running", "returned", "reported"}
  /\ config = "empty" =>
       /\ mode = None
       /\ sessions = <<>>
       /\ transmitted = <<>>
       /\ results = EmptyResults
       /\ \A k \in DOMAIN dispatched :
            /\ dispatched[k].result \in {None, "False"}
            /\ ~dispatched[k].attempted

\* send_email was called on an EmailSender with the empty configuration and
\* has returned False
C11_Witness ==
  /\ config = "empty"
  /\ pc = "done"
  /\ Len(dispatched) = 1
  /\ dispatched[1].result = "False"
  /\ sessions = <<>>

\* C12: the logo is fetched once and cached for the lifetime of the
\* EmailSender: over any sequence of send_email calls, failed and empty
\* downloads included, urlopen is called at most once and the cache is
\* written at most once (the message id of the cache is the first one made).
C12_LogoFetchedOnce ==
  /\ fetches <= 1
  /\ logo_msg_id.id <= 1

\* the send_email calls that have returned
Finished == {k \in DOMAIN dispatched : dispatched[k].result # None}

\* C13: a logo that is not there (the download failed, gave no bytes, or no
\* logo_url is configured) is never fatal and never changes the outcome of a
\* send: the message is built with the text-only header and without an
\* inline image part, the transmission is attempted, and send_email returns
\* what the transport gave -- True only for a message the relay accepted.
\* No run ends in an unhandled error once send_email has been called.
C13_LogoFailureAbsorbed ==
  /\ ending = "crashed" => (recipients = <<>> /\ dispatched = <<>>)
  /\ message.built =>
       /\ message.logo_part = (message.html.header_cid # NoMsgId)
       /\ message.logo_part = dispatched[Len(dispatched)].logo_part
       /\ message.logo_part => Truthy(logo_data)
  /\ \A k \in Finished :
       (config # "empty" /\ ~dispatched[k].logo_part) =>
         /\ dispatched[k].attempted
         /\ dispatched[k].result \in {"True", "False"}
         /\ dispatched[k].result = "True" =>
              \E t \in DOMAIN transmitted :
                /\ transmitted[t].dispatch = k
                /\ ~transmitted[t].logo_part

\* a send_email call whose logo download failed has returned True for a
\* message transmitted without the image part
C13_Witness ==
  /\ Truthy(logo_url)
  /\ ~Truthy(logo_data)
  /\ \E k \in Finished :
       /\ dispatched[k].fetched
       /\ ~dispatched[k].logo_part
       /\ dispatched[k].result = "True"
       /\ \E t \in DOMAIN transmitted : transmitted[t].dispatch = k

\* a document without its unique_id
Mask(h) == [h EXCEPT !.unique_id = <<0, 0>>]

\* a document without its unique_id and the year of its footer
MaskYear(h) == [Mask(h) EXCEPT !.year = 0]

C15_FieldsVerbatim ==
  message.built =>
    LET h == message.html IN
    /\ h.dear = call.name
    /\ call.entry > 0 => h.dear = call.entry
    /\ call.mode = "meet" =>
         /\ mode = "meet"
         /\ meet_info.given
         /\ \E topic \in TopicLines, date \in DateLines, time \in TimeLines,
               link \in LinkLines :
              /\ h.topic = Strip(topic)
              /\ h.date = Strip(date)
              /\ h.time = Strip(time)
              /\ h.link = Strip(link)
         /\ h.kind = "meet"
         /\ h.topic = meet_info.topic
         /\ h.date = meet_info.date
         /\ h.time = meet_info.time
         /\ h.link = meet_info.link
    /\ call.mode = "certificate" =>
         /\ h.kind = "certificate"
         /\ h.href = call.certificate_url
         /\ (mode = "certificate" /\ call.entry > 0) =>
              /\ h.href = CertUrl(recipients[call.entry])
              /\ recipients[call.entry].certificate_url # None =>
                   h.href = recipients[call.entry].certificate_url

\* the invitation for a directory entry has been rendered
C15_Witness ==
  /\ message.built
  /\ mode = "meet"
  /\ call.entry > 0
  /\ message.html.topic = "ML Overview"
  /\ message.html.date = "Oct 30, 2025"
  /\ message.html.time = "8-9PM"
  /\ message.html.link = "https://meet.x/abc"
  /\ message.html.dear = call.entry

\* the send_email call of the test phase of a bulk run
TestDispatches ==
  {k \in DOMAIN dispatched :
     mode \in {"certificate", "meet"} /\ dispatched[k].entry = 0}

\* C16: at most one mail session is open at any time.  The test message of
\* a bulk run goes over a one-off session of its own, opened and closed
\* before the shared session is opened; it is the first send_email call of
\* the run, addressed to the test address the operator typed, with the name
\* of the first directory entry; and every entry of the result mapping is
\* the outcome of a send_email call of the loop, never of the test.
C16_TestOnOneOffSession ==
  /\ Cardinality(OpenSessions) <= 1
  /\ \A j \in DOMAIN sessions :
       sessions[j].kind = "shared" =>
         \A i \in DOMAIN sessions :
           sessions[i].kind = "oneoff" => (i < j /\ ~sessions[i].open)
  /\ \A k \in TestDispatches :
       /\ k = 1
       /\ send_test
       /\ Truthy(test_email)
       /\ dispatched[k].to = test_email
       /\ dispatched[k].server = 0
       /\ recipients # <<>>
       /\ dispatched[k].name = 1
       /\ (server # 0 => dispatched[k].result = "True")
  /\ \A t \in DOMAIN transmitted :
       (mode \in {"certificate", "meet"} /\ transmitted[t].entry = 0) =>
         /\ transmitted[t].dispatch \in TestDispatches
         /\ transmitted[t].to = test_email
         /\ sessions[transmitted[t].session].kind = "oneoff"
  /\ \A e \in DOMAIN results :
       \E k \in BulkDispatches :
         /\ dispatched[k].to = e
         /\ dispatched[k].result = results[e]

\* the test message was transmitted over its one-off session, which is
\* closed, and the loop is sending over the open shared session
C16_Witness ==
  /\ TestDispatches = {1}
  /\ dispatched[1].result = "True"
  /\ \E t \in DOMAIN transmitted :
       /\ transmitted[t].dispatch = 1
       /\ sessions[transmitted[t].session].kind = "oneoff"
       /\ ~sessions[transmitted[t].session].open
  /\ server # 0
  /\ sessions[server].open
  /\ Len(recipients) >= 2
  /\ results # EmptyResults
  /\ test_email \notin DOMAIN results

\* C17: for every directory, the empty one included, and every sequence of
\* answers, a bulk run ends aborted or with its report, never with an
\* unhandled error.
C17_NoUnhandledError ==
  /\ mode \in {"certificate", "meet"} => ending # "crashed"
  /\ (mode \in {"certificate", "meet"} /\ pc = "done") =>
       ending \in {"returned", "aborted", "reported"}

\* C18: once the operator has answered 'y' to "Send a test email first?",
\* no send_email call is made for a directory recipient and no shared
\* session is opened unless the test message was sent successfully and the
\* operator then confirmed with 'y'.
C18_OptInGatesBulk ==
  (send_test /\ (BulkDispatches # {} \/ SharedSessions # {})) =>
    /\ test_success = "True"
    /\ proceed = "y"
============================================================================
